---------------------------- MODULE Spec2Model ----------------------------
(***************************************************************************)
(* MessageCollector of chatluna-character (src/src/service/message.ts).    *)
(*                                                                         *)
(* The collector keeps, per group, a bounded buffer of normalised          *)
(* messages, a polling lock flag, a mute-until timestamp and a temp value. *)
(* The JavaScript runtime is single threaded and runs every callback to    *)
(* completion: a step of the model is one macrotask (a public call made by *)
(* the host, or one firing of a setInterval callback) together with the    *)
(* promise continuations it makes runnable.  In particular the firing of   *)
(* the _lock timer that finds the flag free resolves the promise, and the  *)
(* body of the awaiting async function runs up to its next await (the      *)
(* _unlock call, which only registers a timer) before any other timer.     *)
(*                                                                         *)
(* An array is modelled by its identity and its items: the arrays of a     *)
(* group are numbered in the order the collector creates them (gen).       *)
(*                                                                         *)
(* Strings are sequences of tokens; " " is the whitespace token.           *)
(***************************************************************************)
EXTENDS Integers, Sequences, FiniteSets, Bags, TLC

\* TLC keeps the attributes of a record in the order in which it first meets
\* their names.  Every record of this module lists its attributes in the
\* order of this one, so that no record is ever reordered.
AttributeOrder ==
    [attrs |-> "", author |-> "", bot |-> "", content |-> "", defined |-> "",
     elements |-> "", gen |-> "", guildId |-> "", id |-> "", isDirect |-> "",
     items |-> "", lock |-> "", mute |-> "", name |-> "", notified |-> "",
     op |-> "", pc |-> "", quote |-> "", ref |-> "", seen |-> "",
     selfId |-> "", session |-> "", shifted |-> "", temp |-> "", type |-> "",
     userId |-> "", username |-> ""]

\* ------------------------------------------------------------------ bounds
MaxPending == 2
MaxTime == 1
MaxFilters == 1
MaxListeners == 2
MaxClears == 1
MaxReturned == 1
MaxElements == 2

\* ------------------------------------------------------------------ values
Groups == {"g1", "g2"}

\* null / undefined of a string-valued attribute
Null == "null"

\* an optional object or array: <<>> is undefined, <<v>> is v
None == <<>>
Some(v) == <<v>>

Bot == [selfId |-> "b0", userId |-> Null, username |-> "bot"]

\* h.text(content)
Text(content) ==
    [attrs |-> TRUE, content |-> content, id |-> Null, name |-> Null,
     type |-> "text"]

\* h.at(id, {name})
At(id, name) ==
    [attrs |-> TRUE, content |-> <<>>, id |-> id, name |-> name,
     type |-> "at"]

\* any other element kind (image, face, ...)
Img ==
    [attrs |-> TRUE, content |-> <<>>, id |-> Null, name |-> Null,
     type |-> "img"]

\* an element of the given type that has no attrs object
NoAttrs(type) ==
    [attrs |-> FALSE, content |-> <<>>, id |-> Null, name |-> Null,
     type |-> type]

\* Sessions the host hands to the collector.
User(username, userId) == [userId |-> userId, username |-> username]

\* The author of a quote the platform sends without one (undefined).
NoUser == [defined |-> FALSE]

Quote(author, content, elements) ==
    [author |-> author, content |-> content, elements |-> elements]

Session(guildId, isDirect, author, content, elements, quote) ==
    [author |-> author, bot |-> Bot, content |-> content,
     elements |-> elements, guildId |-> guildId, isDirect |-> isDirect,
     quote |-> quote]

SessHi ==
    Session("g1", FALSE, User("alice", "u1"), <<"h", "i">>, None, None)

SessYo ==
    Session("g1", FALSE, User("bob", "u2"), <<"y", "o", " ">>,
            Some(<<Text(<<"y", "o", " ">>), At("b0", Null), Img>>),
            Some(Quote(User("alice", "u1"), <<"h", "i">>,
                       <<Text(<<"h", "i">>)>>)))

SessBlank ==
    Session("g1", FALSE, User("alice", "u1"), <<" ", " ">>,
            Some(<<Text(<<" ", " ">>), At("u1", "alice")>>),
            Some(Quote(User("bob", "u2"), <<"y", "o">>,
                       <<Text(<<"y", "o">>)>>)))

SessOk ==
    Session("g2", FALSE, User("carol", "u3"), <<"o", "k">>,
            Some(<<Text(<<"o", "k">>)>>), None)

SessDirect ==
    Session("g1", TRUE, User("dave", "u4"), <<"d", "m">>, None, None)

\* Malformed sessions: no author id, a quote without author, a text element
\* without attrs, a mention without id.
SessNoId ==
    Session("g1", FALSE, User("eve", Null), <<"n", "o">>, None, None)

SessNoQuoteAuthor ==
    Session("g1", FALSE, User("alice", "u1"), <<"r", "e">>, None,
            Some(Quote(NoUser, <<"h", "i">>, <<Text(<<"h", "i">>)>>)))

SessNoAttrs ==
    Session("g1", FALSE, User("bob", "u2"), <<"y", "o">>,
            Some(<<Text(<<"y", "o">>), NoAttrs("text")>>), None)

SessNoAtId ==
    Session("g1", FALSE, User("bob", "u2"), <<"y", "o">>,
            Some(<<Text(<<"y", "o">>), At(Null, Null)>>), None)

\* The elements argument of broadcastOnBot: a reply, and an image alone.
BotReply == <<Text(<<"r", "e">>)>>
BotImage == <<Img>>

\* this._config.maxMessages
Capacities == {0, 1, 2}

\* Values of a GroupTemp; TempDefault is {completionMessages: []}.
TempUndefined == "undefined"
TempDefault == "default"
TempValues == {"t1"}

\* Predicates the host registers with addFilter: "always" returns true,
\* "quoted" returns whether the message has a quote.

\* Functions the host registers with collect.  "async" is an async function:
\* whether its promise resolves or rejects, the call emit makes returns a
\* promise, which emit drops.  "throws" throws before it returns a promise.
\* "nested" is an async function that awaits getTemp(session) of the
\* collector: the call emit makes runs it up to that await.
ListenerKinds == {"async", "throws"}

Durations == {1, 2}

\* ------------------------------------------------------- mapElementToString
RECURSIVE trimEnd(_)
trimEnd(s) ==
    IF s = <<>> THEN <<>>
    ELSE IF s[Len(s)] = " " THEN trimEnd(SubSeq(s, 1, Len(s) - 1))
    ELSE s

\* a ?? b
Coalesce(a, b) == IF a = Null THEN b ELSE a

\* The strings one element pushes on filteredBuffer (lines 228-246).
ElementString(session, element) ==
    IF element.type = "text"
    THEN IF Len(trimEnd(element.content)) < 1 THEN <<>> ELSE element.content
    ELSE IF element.type = "at"
    THEN LET name0 == element.name
             name1 == IF element.id = session.bot.selfId
                      THEN Coalesce(name0, Coalesce(session.bot.username, "0"))
                      ELSE name0
             name2 == IF name1 = Null THEN Coalesce(element.id, "0") ELSE name1
         IN  <<"(", name2, "-", element.id, "-<at>)">>
    ELSE <<>>

RECURSIVE JoinElements(_, _)
JoinElements(session, elements) ==
    IF elements = <<>> THEN <<>>
    ELSE ElementString(session, Head(elements))
             \o JoinElements(session, Tail(elements))

mapElementToString(session, content, elements) ==
    IF Len(trimEnd(content)) < 1 THEN <<>>
    ELSE JoinElements(session, elements)

\* element.attrs.content (line 229) and element.attrs.id (line 238) throw a
\* TypeError when the element has no attrs.
ElementThrows(element) ==
    element.type \in {"text", "at"} /\ ~element.attrs

\* Whether mapElementToString throws instead of returning.
MapThrows(content, elements) ==
    /\ Len(trimEnd(content)) >= 1
    /\ \E i \in 1..Len(elements) : ElementThrows(elements[i])


\* ------------------------------------------------------------------- state
VARIABLES
    maxMessages,  \* this._config.maxMessages
    messages,     \* this._messages: group -> [defined, gen, items]
    filters,      \* this._filters
    listeners,    \* the 'collect' listeners of this._eventEmitter
    groupLocks,   \* this._groupLocks: group -> [lock, mute]
    groupTemp,    \* this._groupTemp
    calls,        \* the async calls that have not returned (a bag)
    now,          \* new Date().getTime()
    clears,       \* number of clear calls made so far
    returned,     \* number of async calls that returned without a _lock
    retained      \* group -> gen of the array its listeners last received

vars ==
    <<maxMessages, messages, filters, listeners, groupLocks, groupTemp,
      calls, now, clears, returned, retained>>

\* _getGroupLocks creates {lock: false, mute: 0} on first access; the
\* record every group starts with is that one.
NewGroupLock == [lock |-> FALSE, mute |-> 0]

\* this._messages[groupId] of a group that never had an array.
NoArray == [defined |-> FALSE, gen |-> 0, items |-> <<>>]

Init ==
    /\ maxMessages \in Capacities
    /\ messages = [g \in Groups |-> NoArray]
    /\ filters = <<>>
    /\ listeners = <<>>
    /\ groupLocks = [g \in Groups |-> NewGroupLock]
    /\ groupTemp = [g \in Groups |-> TempUndefined]
    /\ calls = EmptyBag
    /\ now = 0
    /\ clears = 0
    /\ returned = 0
    /\ retained = [g \in Groups |-> 0]

\* ------------------------------------------------------ synchronous methods
addFilter(filter) ==
    /\ Len(filters) < MaxFilters
    /\ filters' = Append(filters, filter)
    /\ UNCHANGED <<maxMessages, messages, listeners, groupLocks, groupTemp,
                   calls, now, clears,
                   returned, retained>>

collect(func) ==
    /\ Len(listeners) < MaxListeners
    /\ listeners' = Append(listeners, func)
    /\ UNCHANGED <<maxMessages, messages, filters, groupLocks, groupTemp,
                   calls, now, clears,
                   returned, retained>>

\* mute that starts a new window at every call.
MuteUntilReset(old, time) == now + time

\* The value mute stores in lock.mute.
MuteUntil(old, time) ==
    IF old < now THEN now + time ELSE old + time

mute(groupId, time) ==
    /\ MuteUntil(groupLocks[groupId].mute, time) <= MaxTime + 2
    /\ groupLocks' = [groupLocks EXCEPT
                         ![groupId].mute = MuteUntil(groupLocks[groupId].mute, time)]
    /\ UNCHANGED <<maxMessages, messages, filters, listeners, groupTemp,
                   calls, now, clears,
                   returned, retained>>

isMute(groupId) == groupLocks[groupId].mute > now

\* getMessages: the items of the group's array, or undefined (None).
getMessages(groupId) ==
    IF messages[groupId].defined THEN Some(messages[groupId].items) ELSE None

\* this._messages[groupId] = []: a new, empty array.
NewArray(groupId) ==
    [defined |-> TRUE, gen |-> messages[groupId].gen + 1, items |-> <<>>]

\* A clear that also resets the lock record of the group.
clearGroupAndLock(groupId) ==
    /\ clears < MaxClears
    /\ messages' = [messages EXCEPT ![groupId] = NewArray(groupId)]
    /\ groupLocks' = [groupLocks EXCEPT ![groupId] = NewGroupLock]
    /\ clears' = clears + 1
    /\ UNCHANGED <<maxMessages, filters, listeners, groupTemp, calls, now,
                   returned, retained>>

\* clear(groupId)
clearGroup(groupId) ==
    /\ clears < MaxClears
    /\ messages' = [messages EXCEPT ![groupId] = NewArray(groupId)]
    /\ clears' = clears + 1
    /\ UNCHANGED <<maxMessages, filters, listeners, groupLocks, groupTemp,
                   calls, now,
                   returned, retained>>

\* clear(): this._messages = {}
clearAll ==
    /\ clears < MaxClears
    /\ messages' = [g \in Groups |-> [messages[g] EXCEPT !.defined = FALSE,
                                                         !.items = <<>>]]
    /\ clears' = clears + 1
    /\ UNCHANGED <<maxMessages, filters, listeners, groupLocks, groupTemp,
                   calls, now,
                   returned, retained>>

\* The clock of the host advances.
Tick ==
    /\ now < MaxTime
    /\ now' = now + 1
    /\ UNCHANGED <<maxMessages, messages, filters, listeners, groupLocks,
                   groupTemp, calls, clears,
                   returned, retained>>

\* ------------------------------------------------------------ async methods
\* A call of an async method: its arguments, where it stands (pc: "lock" =
\* awaiting _lock, "unlock" = awaiting _unlock, "thrown" = rejected), and
\* what its body did: shifted = number of shift() calls, notified = number
\* of listeners emit called, ref and seen = gen and length of the array emit
\* handed to them (ref = 0: no emit).
NewCall(op, session, elements, temp) ==
    [elements |-> elements, notified |-> 0, op |-> op, pc |-> "lock",
     ref |-> 0, seen |-> 0, session |-> session, shifted |-> 0, temp |-> temp]

Pending == BagToSet(calls)

\* A broadcast without the early return for direct sessions.
StartedAlways(call, returnsAtOnce) ==
    /\ BagCardinality(calls) < MaxPending
    /\ calls' = calls (+) SetToBag({call})
    /\ UNCHANGED <<maxMessages, messages, filters, listeners, groupLocks,
                   groupTemp, now, clears, returned, retained>>

\* A call starts: `if (session.isDirect) return` leaves nothing pending,
\* any other call registers the interval of _lock.
Started(call, returnsAtOnce) ==
    /\ BagCardinality(calls) < MaxPending
    /\ IF returnsAtOnce
       THEN /\ returned < MaxReturned
            /\ returned' = returned + 1
            /\ calls' = calls
       ELSE /\ returned' = returned
            /\ calls' = calls (+) SetToBag({call})
    /\ UNCHANGED <<maxMessages, messages, filters, listeners, groupLocks,
                   groupTemp, now, clears, retained>>

CallBroadcast(session) ==
    Started(NewCall("broadcast", session, <<>>, TempUndefined),
            session.isDirect)

CallBroadcastOnBot(session, elements) ==
    Started(NewCall("broadcastOnBot", session, elements, TempUndefined),
            session.isDirect)

CallGetTemp(session) ==
    Started(NewCall("getTemp", session, <<>>, TempUndefined), FALSE)

CallUpdateTemp(session, temp) ==
    Started(NewCall("updateTemp", session, <<>>, temp), FALSE)

\* call becomes next in the bag of pending calls.
Moved(call, next) == (calls (-) SetToBag({call})) (+) SetToBag({next})

\* A _lock callback that does not test the flag.
LockFreeUntested(call) == call.pc = "lock"

\* A _lock that tests one flag shared by all groups.
LockFreeOfAll(call) ==
    /\ call.pc = "lock"
    /\ \A groupId \in Groups : ~groupLocks[groupId].lock

\* The interval callback of _lock finds the flag of the group free.
LockFree(call) ==
    /\ call.pc = "lock"
    /\ ~groupLocks[call.session.guildId].lock

\* A _lock that resolves without setting the flag.
LockLeftFree(groupId) == groupLocks

\* groupLock.lock = true
LockTaken(groupId) == [groupLocks EXCEPT ![groupId].lock = TRUE]

\* An eviction loop that stops one element early.
RECURSIVE EvictLate(_, _)
EvictLate(groupArray, maxMessageSize) ==
    IF Len(groupArray) > maxMessageSize + 1
    THEN EvictLate(Tail(groupArray), maxMessageSize)
    ELSE groupArray

\* An eviction loop that removes the newest element instead of the oldest.
RECURSIVE EvictNewest(_, _)
EvictNewest(groupArray, maxMessageSize) ==
    IF Len(groupArray) > maxMessageSize
    THEN EvictNewest(SubSeq(groupArray, 1, Len(groupArray) - 1), maxMessageSize)
    ELSE groupArray

\* while (groupArray.length > maxMessageSize) groupArray.shift()
RECURSIVE Evict(_, _)
Evict(groupArray, maxMessageSize) ==
    IF Len(groupArray) > maxMessageSize
    THEN Evict(Tail(groupArray), maxMessageSize)
    ELSE groupArray

\* A body that puts the message in front (unshift) instead of pushing it.
PushFrontEvict(groupArray, message, maxMessageSize) ==
    Evict(<<message>> \o groupArray, maxMessageSize)

\* groupArray.push(message) followed by the eviction loop.
PushEvict(groupArray, message, maxMessageSize) ==
    Evict(Append(groupArray, message), maxMessageSize)

\* A body that copies nothing and starts from a new array at every call.
GroupArrayFresh(groupId) == NewArray(groupId)

\* this._messages[groupId] ? this._messages[groupId] : []
GroupArray(groupId) ==
    IF messages[groupId].defined THEN messages[groupId] ELSE NewArray(groupId)

\* session.elements ? session.elements : [h.text(session.content)]
SessionElements(session) ==
    IF session.elements = None
    THEN <<Text(session.content)>>
    ELSE session.elements[1]

\* The Message broadcast builds (lines 182-197).
IncomingMessage(session, content) ==
    [content |-> content,
     id |-> session.author.userId,
     name |-> session.author.username,
     quote |-> IF session.quote = None THEN None
               ELSE Some([content |-> mapElementToString(session,
                                         session.quote[1].content,
                                         session.quote[1].elements),
                          id |-> session.quote[1].author.userId,
                          name |-> session.quote[1].author.username])]

\* Whether building the Message throws: session.quote.author.username
\* (line 193) when the quote has no author, or the normalisation of the
\* quote (line 188).
MessageThrows(session) ==
    /\ session.quote # None
    /\ \/ MapThrows(session.quote[1].content, session.quote[1].elements)
       \/ "username" \notin DOMAIN session.quote[1].author

\* A broadcastOnBot that records the author and quote of the session.
BotMessageOfAuthor(session, content) == IncomingMessage(session, content)

\* The Message broadcastOnBot builds (lines 139-143).
BotMessage(session, content) ==
    [content |-> content,
     id |-> Coalesce(session.bot.userId, Coalesce(session.bot.selfId, "0")),
     name |-> session.bot.username,
     quote |-> None]

\* A registered filter applied to (session, message).
FilterResult(filter, session, message) ==
    IF filter = "always" THEN TRUE ELSE message.quote # None

\* this._filters.some((func) => func(session, message))
SomeFilter(session, message) ==
    \E i \in 1..Len(filters) : FilterResult(filters[i], session, message)

\* An emit condition that forgets the mute check.
ShouldEmitMuted(session, message) == SomeFilter(session, message)

\* The condition of the if around emit (lines 209-212).
ShouldEmit(session, message) ==
    SomeFilter(session, message) /\ ~isMute(session.guildId)

\* Whether emit throws: a listener does.
EmitThrows == \E i \in 1..Len(listeners) : listeners[i] = "throws"

\* emit calls the listeners in registration order; a listener that throws
\* ends the emit with its exception.  The number of listeners called.
Notified ==
    IF EmitThrows
    THEN CHOOSE i \in 1..Len(listeners) :
             /\ listeners[i] = "throws"
             /\ \A j \in 1..(i - 1) : listeners[j] # "throws"
    ELSE Len(listeners)

\* The getTemp calls the listeners emit called have started: each "nested"
\* listener registers the interval of the _lock of its getTemp.
Nested(session) ==
    LET count == Cardinality({i \in 1..Notified : listeners[i] = "nested"})
    IN  IF count = 0 THEN EmptyBag
        ELSE [call \in {NewCall("getTemp", session, <<>>, TempUndefined)}
                 |-> count]

\* A body without the early return on empty content.
NeverEmpty(content) == FALSE

\* content.length < 1
IsEmpty(content) == Len(content) < 1


\* The group's array after push and eviction.
Pushed(groupId, message) ==
    [GroupArray(groupId) EXCEPT
        !.items = PushEvict(GroupArray(groupId).items, message, maxMessages)]

\* The number of shift() calls the eviction loop makes after the push.
Shifted(groupId) ==
    IF Len(GroupArray(groupId).items) + 1 > maxMessages
    THEN Len(GroupArray(groupId).items) + 1 - maxMessages
    ELSE 0

\* The _lock timer of a broadcast call fires with the flag free: the flag is
\* taken and broadcast runs from line 165 to its await of _unlock, or to the
\* exception that mapElementToString, the Message literal or emit throws.
BroadcastLocked(call) ==
    /\ LockFree(call)
    /\ call.op = "broadcast"
    /\ LET session == call.session
           groupId == session.guildId
           content == mapElementToString(session, session.content,
                                         SessionElements(session))
           message == IncomingMessage(session, content)
       IN  /\ groupLocks' = LockTaken(groupId)
           /\ IF MapThrows(session.content, SessionElements(session))
              THEN /\ calls' = Moved(call, [call EXCEPT !.pc = "thrown"])
                   /\ UNCHANGED <<messages, retained>>
              ELSE IF IsEmpty(content)
              THEN /\ calls' = Moved(call, [call EXCEPT !.pc = "unlock"])
                   /\ UNCHANGED <<messages, retained>>
              ELSE IF MessageThrows(session)
              THEN /\ calls' = Moved(call, [call EXCEPT !.pc = "thrown"])
                   /\ UNCHANGED <<messages, retained>>
              ELSE /\ messages' = [messages EXCEPT
                                      ![groupId] = Pushed(groupId, message)]
                   /\ retained' =
                        IF ShouldEmit(session, message) /\ listeners # <<>>
                        THEN [retained EXCEPT
                                 ![groupId] = Pushed(groupId, message).gen]
                        ELSE retained
                   /\ calls' =
                        IF ShouldEmit(session, message)
                        THEN Moved(call, [call EXCEPT
                                 !.pc = IF EmitThrows THEN "thrown" ELSE "unlock",
                                 !.shifted = Shifted(groupId),
                                 !.notified = Notified,
                                 !.ref = Pushed(groupId, message).gen,
                                 !.seen = Len(Pushed(groupId, message).items)])
                             (+) Nested(session)
                        ELSE Moved(call, [call EXCEPT
                                 !.pc = "unlock",
                                 !.shifted = Shifted(groupId)])
    /\ UNCHANGED <<maxMessages, filters, listeners, groupTemp, now, clears,
                   returned>>

\* The same for broadcastOnBot (lines 126-155), which has no emit.
BroadcastOnBotLocked(call) ==
    /\ LockFree(call)
    /\ call.op = "broadcastOnBot"
    /\ LET session == call.session
           groupId == session.guildId
           content == mapElementToString(session, session.content,
                                         call.elements)
           message == BotMessage(session, content)
       IN  /\ groupLocks' = LockTaken(groupId)
           /\ IF MapThrows(session.content, call.elements)
              THEN /\ calls' = Moved(call, [call EXCEPT !.pc = "thrown"])
                   /\ UNCHANGED messages
              ELSE IF IsEmpty(content)
              THEN /\ calls' = Moved(call, [call EXCEPT !.pc = "unlock"])
                   /\ UNCHANGED messages
              ELSE /\ messages' = [messages EXCEPT
                                      ![groupId] = Pushed(groupId, message)]
                   /\ calls' = Moved(call, [call EXCEPT
                                  !.pc = "unlock",
                                  !.shifted = Shifted(groupId)])
    /\ UNCHANGED <<maxMessages, filters, listeners, groupTemp, now, clears,
                   returned, retained>>

\* this._groupTemp[groupId] ?? {completionMessages: []}
TempOrDefault(groupId) ==
    IF groupTemp[groupId] = TempUndefined THEN TempDefault ELSE groupTemp[groupId]

\* getTemp from line 62 to its await of _unlock.
GetTempLocked(call) ==
    /\ LockFree(call)
    /\ call.op = "getTemp"
    /\ LET groupId == call.session.guildId
       IN  /\ groupLocks' = LockTaken(groupId)
           /\ groupTemp' = [groupTemp EXCEPT ![groupId] = TempOrDefault(groupId)]
           /\ calls' = Moved(call, [call EXCEPT !.pc = "unlock",
                                                !.temp = TempOrDefault(groupId)])
    /\ UNCHANGED <<maxMessages, messages, filters, listeners, now, clears,
                   returned, retained>>

\* updateTemp from line 52 to its await of _unlock.
UpdateTempLocked(call) ==
    /\ LockFree(call)
    /\ call.op = "updateTemp"
    /\ LET groupId == call.session.guildId
       IN  /\ groupLocks' = LockTaken(groupId)
           /\ groupTemp' = [groupTemp EXCEPT ![groupId] = call.temp]
           /\ calls' = Moved(call, [call EXCEPT !.pc = "unlock"])
    /\ UNCHANGED <<maxMessages, messages, filters, listeners, now, clears,
                   returned, retained>>

\* The interval callback of _unlock finds the flag set.
UnlockReady(call) ==
    /\ call.pc = "unlock"
    /\ groupLocks[call.session.guildId].lock

\* The _unlock timer of a call fires: the flag is cleared and the async
\* method returns.
Unlocked(call) ==
    /\ UnlockReady(call)
    /\ groupLocks' = [groupLocks EXCEPT ![call.session.guildId].lock = FALSE]
    /\ calls' = calls (-) SetToBag({call})
    /\ UNCHANGED <<maxMessages, messages, filters, listeners, groupTemp,
                   now, clears,
                   returned, retained>>

\* ----------------------------------------------------------- specifications
\* The host buffers messages of two groups and clears buffers.
NextBuffer ==
    \/ \E groupId \in Groups : clearGroup(groupId)
    \/ clearAll
    \/ \E session \in {SessHi, SessBlank, SessOk, SessDirect} :
           CallBroadcast(session)
    \/ \E session \in {SessHi, SessDirect}, elements \in {BotReply, BotImage} :
           CallBroadcastOnBot(session, elements)
    \/ \E call \in Pending : BroadcastLocked(call)
    \/ \E call \in Pending : BroadcastOnBotLocked(call)
    \/ \E call \in Pending : Unlocked(call)

SpecBuffer == Init /\ [][NextBuffer]_vars

\* The host registers a filter and listeners, mutes one group and lets
\* time pass.
NextDispatch ==
    \/ addFilter("quoted")
    \/ collect("async")
    \/ \E time \in Durations : mute("g1", time)
    \/ Tick
    \/ \E session \in {SessHi, SessYo, SessBlank} : CallBroadcast(session)
    \/ CallBroadcastOnBot(SessYo, BotImage)
    \/ \E call \in Pending : BroadcastLocked(call)
    \/ \E call \in Pending : BroadcastOnBotLocked(call)
    \/ \E call \in Pending : Unlocked(call)

SpecDispatch == Init /\ [][NextDispatch]_vars

\* The four async methods contend for the lock of a group; a registered
\* listener may throw.
NextLock ==
    \/ addFilter("always")
    \/ \E func \in ListenerKinds : collect(func)
    \/ \E session \in {SessHi, SessOk} : CallGetTemp(session)
    \/ \E temp \in TempValues : CallUpdateTemp(SessHi, temp)
    \/ \E session \in {SessHi, SessBlank} : CallBroadcast(session)
    \/ CallBroadcastOnBot(SessHi, BotReply)
    \/ \E call \in Pending : BroadcastLocked(call)
    \/ \E call \in Pending : BroadcastOnBotLocked(call)
    \/ \E call \in Pending : GetTempLocked(call)
    \/ \E call \in Pending : UpdateTempLocked(call)
    \/ \E call \in Pending : Unlocked(call)

SpecLock == Init /\ [][NextLock]_vars

\* Listeners keep the array a dispatch handed them while the host goes on
\* buffering messages and clears buffers.
NextRetain ==
    \/ addFilter("always")
    \/ \E func \in ListenerKinds : collect(func)
    \/ clearGroup("g1")
    \/ clearAll
    \/ \E session \in {SessHi, SessYo} : CallBroadcast(session)
    \/ CallBroadcastOnBot(SessHi, BotReply)
    \/ \E call \in Pending : BroadcastLocked(call)
    \/ \E call \in Pending : BroadcastOnBotLocked(call)
    \/ \E call \in Pending : Unlocked(call)

SpecRetain == Init /\ [][NextRetain]_vars

\* The host clears buffers of groups that hold messages, a mute window and
\* temp data.
NextClear ==
    \/ \E groupId \in Groups : clearGroup(groupId)
    \/ clearAll
    \/ mute("g2", 2)
    \/ \E session \in {SessHi, SessOk} : CallBroadcast(session)
    \/ \E temp \in TempValues : CallUpdateTemp(SessOk, temp)
    \/ \E call \in Pending : BroadcastLocked(call)
    \/ \E call \in Pending : UpdateTempLocked(call)
    \/ \E call \in Pending : Unlocked(call)

SpecClear == Init /\ [][NextClear]_vars

\* The host works on two groups at once: it buffers, mutes and keeps temp
\* data, and a broadcast that throws leaves the lock of a group taken for
\* ever.
NextGroups ==
    \/ mute("g1", 3)
    \/ \E session \in {SessHi, SessNoAttrs, SessOk} : CallBroadcast(session)
    \/ CallBroadcastOnBot(SessHi, BotReply)
    \/ CallGetTemp(SessOk)
    \/ \E temp \in TempValues : CallUpdateTemp(SessHi, temp)
    \/ \E call \in Pending : BroadcastLocked(call)
    \/ \E call \in Pending : BroadcastOnBotLocked(call)
    \/ \E call \in Pending : GetTempLocked(call)
    \/ \E call \in Pending : UpdateTempLocked(call)
    \/ \E call \in Pending : Unlocked(call)

SpecGroups == Init /\ [][NextGroups]_vars

\* The platform delivers sessions with missing attributes.
NextMalformed ==
    \/ addFilter("always")
    \/ collect("async")
    \/ \E session \in {SessHi, SessNoId, SessNoQuoteAuthor, SessNoAttrs,
                        SessNoAtId} :
           CallBroadcast(session)
    \/ \E elements \in {BotReply, <<NoAttrs("at")>>} :
           CallBroadcastOnBot(SessHi, elements)
    \/ \E call \in Pending : BroadcastLocked(call)
    \/ \E call \in Pending : BroadcastOnBotLocked(call)
    \/ \E call \in Pending : Unlocked(call)

SpecMalformed == Init /\ [][NextMalformed]_vars

\* Listeners call getTemp on the group of the dispatch that invokes them.
NextNested ==
    \/ addFilter("always")
    \/ \E func \in {"nested", "throws"} : collect(func)
    \/ CallBroadcast(SessHi)
    \/ \E call \in Pending : BroadcastLocked(call)
    \/ \E call \in Pending : GetTempLocked(call)
    \/ \E call \in Pending : Unlocked(call)

SpecNested == Init /\ [][NextNested]_vars

\* A finite set of calls on one group, issued before any timer fires.
LiveCalls ==
    {NewCall("broadcast", SessHi, <<>>, TempUndefined),
     NewCall("broadcast", SessBlank, <<>>, TempUndefined),
     NewCall("broadcastOnBot", SessHi, BotReply, TempUndefined),
     NewCall("getTemp", SessHi, <<>>, TempUndefined),
     NewCall("updateTemp", SessHi, <<>>, "t1")}

\* The bags of at most n of these calls.
RECURSIVE BagsUpTo(_)
BagsUpTo(n) ==
    IF n = 0 THEN {EmptyBag}
    ELSE BagsUpTo(n - 1) \cup
         {bag (+) SetToBag({call}) : bag \in BagsUpTo(n - 1), call \in LiveCalls}

\* The host has registered its filter and listeners and issued the calls.
InitLive ==
    /\ maxMessages \in Capacities
    /\ messages = [g \in Groups |-> NoArray]
    /\ filters \in {<<>>, <<"always">>}
    /\ listeners \in UNION {[1..n -> ListenerKinds] : n \in 0..MaxListeners}
    /\ groupLocks = [g \in Groups |-> NewGroupLock]
    /\ groupTemp = [g \in Groups |-> TempUndefined]
    /\ calls \in BagsUpTo(MaxPending)
    /\ now = 0
    /\ clears = 0
    /\ returned = 0
    /\ retained = [g \in Groups |-> 0]

\* Only the interval callbacks of _lock and _unlock run.
NextLive ==
    \/ \E call \in Pending : BroadcastLocked(call)
    \/ \E call \in Pending : BroadcastOnBotLocked(call)
    \/ \E call \in Pending : GetTempLocked(call)
    \/ \E call \in Pending : UpdateTempLocked(call)
    \/ \E call \in Pending : Unlocked(call)

\* setInterval fires every callback again and again: a callback that can
\* change the state eventually does.
SpecLive == InitLive /\ [][NextLive]_vars /\ WF_vars(NextLive)

\* Inputs of mapElementToString: text contents and element sequences.
Contents == {<<>>, <<" ">>, <<"h", "i">>, <<"y", "o", " ">>}

ElementPool ==
    {Text(<<"h", "i">>), Text(<<"y", "o", " ">>), Text(<<" ">>),
     At("b0", Null), At("u1", "alice"), At("u9", Null), Img}

ElementSeqs == UNION {[1..n -> ElementPool] : n \in 0..MaxElements}

\* One call whose content and elements are drawn from these sets: a
\* broadcast of a session that carries the elements, or a broadcastOnBot
\* that is given them.
NormalizeCalls ==
    {NewCall("broadcast",
             Session("g1", FALSE, User("alice", "u1"), content,
                     Some(elements), None),
             <<>>, TempUndefined) :
         content \in Contents, elements \in ElementSeqs}
    \cup
    {NewCall("broadcastOnBot",
             Session("g1", FALSE, User("alice", "u1"), content, None, None),
             elements, TempUndefined) :
         content \in Contents, elements \in ElementSeqs}

InitNormalize ==
    /\ maxMessages \in Capacities
    /\ messages = [g \in Groups |-> NoArray]
    /\ filters = <<>>
    /\ listeners = <<>>
    /\ groupLocks = [g \in Groups |-> NewGroupLock]
    /\ groupTemp = [g \in Groups |-> TempUndefined]
    /\ \E call \in NormalizeCalls : calls = SetToBag({call})
    /\ now = 0
    /\ clears = 0
    /\ returned = 0
    /\ retained = [g \in Groups |-> 0]

NextNormalize ==
    \/ \E call \in Pending : BroadcastLocked(call)
    \/ \E call \in Pending : BroadcastOnBotLocked(call)
    \/ \E call \in Pending : Unlocked(call)

SpecNormalize == InitNormalize /\ [][NextNormalize]_vars


\* ------------------------------------------------------------ verification
Min(a, b) == IF a < b THEN a ELSE b

\* The last n elements of s.
Suffix(s, n) == SubSeq(s, Len(s) - n + 1, Len(s))

\* The items getMessages returns, empty when it returns undefined.
Items(groupId) == messages[groupId].items

\* The calls between the resolution of their _lock and the firing of their
\* _unlock on a group (a call whose body threw never reaches its _unlock).
Holders(groupId) ==
    {call \in Pending : /\ call.session.guildId = groupId
                        /\ call.pc \in {"unlock", "thrown"}}

HolderCount(groupId) ==
    BagCardinality([call \in Holders(groupId) |-> CopiesIn(call, calls)])

Holder(groupId) == CHOOSE call \in Holders(groupId) : TRUE

Waiters(groupId) ==
    {call \in Pending : call.session.guildId = groupId /\ call.pc = "lock"}

\* The normalized content of a broadcast or broadcastOnBot call.
CallContent(call) ==
    mapElementToString(call.session, call.session.content,
        IF call.op = "broadcast" THEN SessionElements(call.session)
        ELSE call.elements)

\* The normalized content of the call is not the empty string.
HasContent(call) == CallContent(call) # <<>>

\* The message a broadcast or broadcastOnBot call appends.
CallMessage(call) ==
    IF call.op = "broadcast"
    THEN IncomingMessage(call.session, CallContent(call))
    ELSE BotMessage(call.session, CallContent(call))

\* The step is the body of call, run on the firing of its _lock timer.
BodyOf(call) == BroadcastLocked(call) \/ BroadcastOnBotLocked(call)

\* The items of the group after message is appended to them, bounded.
Appended(groupId, message) ==
    LET all == Append(Items(groupId), message)
    IN  Suffix(all, Min(Len(all), maxMessages))

\* C1: every broadcast or broadcastOnBot with non-empty content leaves the
\* buffer getMessages returns equal to the last min(k + 1, maxMessages)
\* elements of the k buffered messages followed by the new one, and no step
\* other than such an append or a clear changes a buffer.  By induction on
\* the appends made since the last clear, the buffer is the last
\* min(n, maxMessages) of the n messages appended, in append order.
C1_BufferIsSuffix ==
    [][ /\ \A call \in Pending :
             BodyOf(call) /\ HasContent(call) =>
                 /\ getMessages(call.session.guildId)'
                        = Some(Appended(call.session.guildId, CallMessage(call)))
                 /\ Len(Items(call.session.guildId)') <= maxMessages
        /\ \A groupId \in Groups :
             messages'[groupId] # messages[groupId] =>
                 \/ clears' # clears
                 \/ \E call \in Waiters(groupId) :
                        BodyOf(call) /\ HasContent(call) ]_vars

\* C1 witness: with maxMessages = 2, a third message was appended and the
\* oldest one evicted.
C1_Witness ==
    /\ maxMessages = 2
    /\ \E call \in Holders("g1") :
           /\ call.shifted = 1
           /\ Len(Items("g1")) = 2
           /\ Items("g1")[1] # Items("g1")[2]

\* C2: per group at most one caller is between the resolution of its _lock
\* and the firing of its _unlock, and the lock flag of the group is true
\* exactly when there is one.
C2_MutualExclusion ==
    \A groupId \in Groups :
        /\ HolderCount(groupId) <= 1
        /\ groupLocks[groupId].lock <=> (HolderCount(groupId) = 1)

\* C2 witness: a caller holds the lock of a group while a caller of another
\* method waits for it.
C2_Witness ==
    \E holder \in Holders("g1"), waiter \in Waiters("g1") :
        /\ holder.op # waiter.op
        /\ holder.pc = "unlock"

\* C3: no state shows a buffer longer than maxMessages: neither the array
\* getMessages returns nor the array emit hands to the listeners.
C3_NeverOverCapacity ==
    /\ \A groupId \in Groups : Len(Items(groupId)) <= maxMessages
    /\ \A call \in Pending : call.seen <= maxMessages

\* C3 witness: of two concurrent broadcasts on a group, one has appended,
\* evicted and emitted while the other still waits for the lock.
C3_Witness ==
    \E holder \in Holders("g1"), waiter \in Waiters("g1") :
        /\ holder.op = "broadcast" /\ waiter.op = "broadcast"
        /\ holder.shifted > 0
        /\ holder.ref # 0 /\ holder.notified > 0
        /\ holder.seen = maxMessages


\* C4: a broadcast invokes the listeners if and only if its content is not
\* empty, a registered filter returns true and the group is not muted; it
\* then invokes every registered listener, and it invokes none when no
\* filter is registered.
C4_DispatchIffFilterAndUnmuted ==
    [][ \A call \in Pending :
          BroadcastLocked(call) =>
              LET groupId == call.session.guildId
                  dispatch ==
                      /\ HasContent(call)
                      /\ \E i \in 1..Len(filters) :
                             FilterResult(filters[i], call.session, CallMessage(call))
                      /\ ~(groupLocks[groupId].mute > now)
              IN  /\ Holder(groupId)'.notified
                         = IF dispatch THEN Len(listeners) ELSE 0
                  /\ filters = <<>> => Holder(groupId)'.notified = 0 ]_vars

\* C5: the body of a broadcast or broadcastOnBot whose normalized content is
\* empty changes no buffer and invokes no listener, the call goes on to its
\* _unlock with the flag set, and the firing of its _unlock timer clears the
\* flag and changes no buffer.
C5_EmptyContentIsSkipped ==
    [][ \A call \in Pending :
          ~HasContent(call) =>
              /\ BodyOf(call) =>
                     /\ messages' = messages
                     /\ Holder(call.session.guildId)'.pc = "unlock"
                     /\ Holder(call.session.guildId)'.notified = 0
                     /\ Holder(call.session.guildId)'.ref = 0
                     /\ groupLocks'[call.session.guildId].lock
              /\ Unlocked(call) =>
                     /\ messages' = messages
                     /\ ~groupLocks'[call.session.guildId].lock ]_vars

\* C5 witness: a broadcast with empty content, which a registered filter
\* matches while listeners are registered and the group is not muted, has
\* run its body and awaits its _unlock.
C5_Witness ==
    \E call \in Holders("g1") :
        /\ call.op = "broadcast"
        /\ ~HasContent(call)
        /\ SomeFilter(call.session, CallMessage(call))
        /\ listeners # <<>>
        /\ ~isMute("g1")

\* C6: a broadcast with non-empty content that runs while the mute-until
\* timestamp of its group is greater than the current time appends its
\* message, with eviction, and invokes no listener.
C6_MuteGatesDispatchOnly ==
    [][ \A call \in Pending :
          /\ BroadcastLocked(call)
          /\ HasContent(call)
          /\ groupLocks[call.session.guildId].mute > now
          => /\ Items(call.session.guildId)'
                    = Appended(call.session.guildId, CallMessage(call))
             /\ Holder(call.session.guildId)'.pc = "unlock"
             /\ Holder(call.session.guildId)'.notified = 0
             /\ Holder(call.session.guildId)'.ref = 0 ]_vars

\* C6 witness: in a muted group a broadcast that a registered filter matches
\* has appended its message and invoked none of the registered listeners.
C6_Witness ==
    \E call \in Holders("g1") :
        /\ isMute("g1")
        /\ call.op = "broadcast"
        /\ SomeFilter(call.session, CallMessage(call))
        /\ listeners # <<>>
        /\ call.ref = 0
        /\ Items("g1") # <<>>
        /\ Items("g1")[Len(Items("g1"))] = CallMessage(call)

\* C7: mute(g, d) sets the mute-until timestamp to muteUntil + d when
\* muteUntil is in the future and to now + d otherwise; isMute is true right
\* after the call; after a call made while not muted isMute is false from
\* d time units after the call on.
C7_MuteStacks ==
    [][ \A groupId \in Groups, time \in Durations :
          mute(groupId, time) =>
              LET muteUntil == groupLocks[groupId].mute
              IN  /\ groupLocks'[groupId].mute
                         = IF muteUntil > now THEN muteUntil + time
                           ELSE now + time
                  /\ isMute(groupId)'
                  /\ ~(muteUntil > now) =>
                         \A later \in now..(MaxTime + 2) :
                             (groupLocks'[groupId].mute > later)
                                 <=> (later < now + time) ]_vars

\* C7 witness: the window of a group ends further in the future than one
\* call can put it: calls made while muted have stacked.
C7_Witness ==
    \A time \in Durations : groupLocks["g1"].mute > now + time

\* C8: every broadcast that has dispatched goes on to await its _unlock with
\* the flag set, whatever its listeners did.
C8_ReleasesAfterDispatch ==
    \A call \in Pending :
        call.ref # 0 =>
            /\ call.pc = "unlock"
            /\ groupLocks[call.session.guildId].lock
            /\ Items(call.session.guildId) # <<>>

\* C9: the items of a group's buffer and its temp data change only in a
\* step in which a caller acquires the lock of that group, and never while
\* the lock of the group is held.
C9_MutationsHoldTheMutex ==
    [][ \A groupId \in Groups :
          Items(groupId)' # Items(groupId) \/ groupTemp'[groupId] # groupTemp[groupId]
          => /\ ~groupLocks[groupId].lock
             /\ groupLocks'[groupId].lock ]_vars

\* C10: broadcastOnBot invokes no listener; with non-empty content it
\* appends, with eviction, one message that carries the identity of the bot
\* and no quote, and goes on to its _unlock.
C10_BotIsBufferedNotDispatched ==
    [][ \A call \in Pending :
          BroadcastOnBotLocked(call) =>
              LET groupId == call.session.guildId
                  bot == call.session.bot
                  message ==
                      [content |-> CallContent(call),
                       id |-> IF bot.userId # Null THEN bot.userId
                              ELSE IF bot.selfId # Null THEN bot.selfId
                              ELSE "0",
                       name |-> bot.username,
                       quote |-> None]
              IN  /\ Holder(groupId)'.pc = "unlock"
                  /\ Holder(groupId)'.notified = 0
                  /\ Holder(groupId)'.ref = 0
                  /\ groupLocks'[groupId].lock
                  /\ HasContent(call) =>
                         Items(groupId)' = Appended(groupId, message) ]_vars

\* C10 witness: a broadcastOnBot has appended its message while a filter
\* that matches every message and listeners are registered.
C10_Witness ==
    \E call \in Holders("g1") :
        /\ call.op = "broadcastOnBot"
        /\ filters = <<"always">>
        /\ listeners # <<>>
        /\ call.shifted > 0
        /\ Items("g1") # <<>>
        /\ Items("g1")[Len(Items("g1"))].name = "bot"

\* C11: a broadcast or broadcastOnBot of a direct session returns at once:
\* it leaves no call pending (no _lock is registered, no listener is
\* invoked) and changes no buffer, lock flag, mute timestamp or temp data of
\* any group, and no array reaches a listener.
C11_DirectIsNoOp ==
    [][ \A session \in {SessHi, SessBlank, SessOk, SessDirect} :
          /\ session.isDirect
          /\ \/ CallBroadcast(session)
             \/ \E elements \in {BotReply, BotImage} :
                    CallBroadcastOnBot(session, elements)
          => /\ calls' = calls
             /\ messages' = messages
             /\ groupLocks' = groupLocks
             /\ groupTemp' = groupTemp
             /\ retained' = retained
             /\ returned' = returned + 1 ]_vars

\* C11 witness: a call on a direct session has returned while the group the
\* session names has a buffered message and its lock is held by a broadcast.
C11_Witness ==
    /\ returned > 0
    /\ Items("g1") # <<>>
    /\ \E call \in Holders("g1") : call.pc = "unlock"

\* The step is a broadcast body that calls emit.
Dispatches(call) ==
    /\ BroadcastLocked(call)
    /\ Holder(call.session.guildId)'.ref # 0

\* C12: a broadcast that dispatches hands its listeners an array whose
\* newest element is the message just accepted, whatever maxMessages is;
\* the array is the one getMessages returns at that time; and every later
\* append to the group goes to the array the listeners received.
C12_DispatchedBufferIsLive ==
    [][ \A call \in Pending :
          LET groupId == call.session.guildId
          IN  /\ Dispatches(call) =>
                     /\ Holder(groupId)'.ref = messages'[groupId].gen
                     /\ Holder(groupId)'.seen = Len(Items(groupId)')
                     /\ Items(groupId)' # <<>>
                     /\ Items(groupId)'[Len(Items(groupId)')] = CallMessage(call)
              /\ BodyOf(call) /\ HasContent(call) /\ retained[groupId] # 0 =>
                     messages'[groupId].gen = retained[groupId] ]_vars

\* C12 as amended: with maxMessages >= 1 the array a dispatch hands to the
\* listeners has the accepted message as its newest element; whatever
\* maxMessages is, the array is the one getMessages returns at that time;
\* and as long as no clear is called the array the listeners received stays
\* the array of the group, so that the appends made until then go to it.
C12_LiveUntilCleared ==
    [][ /\ \A call \in Pending :
             LET groupId == call.session.guildId
             IN  Dispatches(call) =>
                     /\ Holder(groupId)'.ref = messages'[groupId].gen
                     /\ messages'[groupId].defined
                     /\ Holder(groupId)'.seen = Len(Items(groupId)')
                     /\ retained'[groupId]
                            = IF listeners # <<>> THEN messages'[groupId].gen
                              ELSE retained[groupId]
                     /\ maxMessages >= 1 =>
                            /\ Items(groupId)' # <<>>
                            /\ Items(groupId)'[Len(Items(groupId)')]
                                   = CallMessage(call)
        /\ \A groupId \in Groups :
             /\ retained[groupId] # 0
             /\ messages[groupId].defined
             /\ messages[groupId].gen = retained[groupId]
             /\ clears' = clears
             => /\ messages'[groupId].defined
                /\ messages'[groupId].gen = retained[groupId]
                /\ retained'[groupId] = retained[groupId] ]_vars

\* C12 witness: the listeners of g1 received an array from a broadcast that
\* has returned; a broadcastOnBot then appended to the same array.
C12_Witness ==
    /\ maxMessages = 2
    /\ retained["g1"] # 0
    /\ messages["g1"].defined
    /\ messages["g1"].gen = retained["g1"]
    /\ \E call \in Holders("g1") : call.op = "broadcastOnBot"
    /\ Len(Items("g1")) = 2
    /\ Items("g1")[1].name = "alice"
    /\ Items("g1")[2].name = "bot"

\* C13: clear(g) leaves getMessages(g) empty and the buffer of every other
\* group as it was; clear() leaves no group with a buffered message; both
\* leave the lock flag, the mute-until timestamp and the temp data of every
\* group as they were.
C13_ClearEmptiesBuffersOnly ==
    [][ /\ \A groupId \in Groups :
             clearGroup(groupId) =>
                 /\ getMessages(groupId)' = Some(<<>>)
                 /\ \A other \in Groups \ {groupId} :
                        getMessages(other)' = getMessages(other)
                 /\ groupLocks' = groupLocks
                 /\ groupTemp' = groupTemp
        /\ clearAll =>
                 /\ \A groupId \in Groups : Items(groupId)' = <<>>
                 /\ groupLocks' = groupLocks
                 /\ groupTemp' = groupTemp ]_vars

\* C13 witness: g1 was cleared after it had a buffer, while g2 keeps its
\* message, its mute window and its temp data.
C13_Witness ==
    /\ clears > 0
    /\ messages["g1"].gen > 1
    /\ getMessages("g1") = Some(<<>>)
    /\ Items("g2") # <<>>
    /\ groupLocks["g2"].mute > now
    /\ groupLocks["g2"].lock
    /\ groupTemp["g2"] \in TempValues

\* C14: a broadcast whose text content is not blank completes whatever
\* attributes its session lacks: it goes on to its _unlock with its message
\* appended, and the message carries the id '0' when the author has no id.
C14_MalformedInputFallsBack ==
    [][ \A call \in Pending :
          /\ BroadcastLocked(call)
          /\ Len(trimEnd(call.session.content)) >= 1
          => LET groupId == call.session.guildId
                 userId == call.session.author.userId
             IN  /\ Holder(groupId)'.pc = "unlock"
                 /\ maxMessages >= 1 =>
                        /\ Items(groupId)' # <<>>
                        /\ Items(groupId)'[Len(Items(groupId)')].name
                               = call.session.author.username
                        /\ Items(groupId)'[Len(Items(groupId)')].id
                               = IF userId = Null THEN "0" ELSE userId ]_vars

\* C15: the body of a call runs in the step in which its _lock resolves,
\* whichever call was started first.  The message it appends comes after
\* every message buffered by the calls that acquired the lock before it:
\* the messages retained keep their order and precede the new one.
C15_BufferedInAcquisitionOrder ==
    [][ \A call \in Pending :
          BodyOf(call) /\ HasContent(call)
          => LET old == Items(call.session.guildId)
                 new == Items(call.session.guildId)'
                 kept == Len(new) - 1
             IN  /\ maxMessages >= 1 =>
                        /\ new # <<>>
                        /\ new[Len(new)] = CallMessage(call)
                 /\ kept <= Len(old)
                 /\ \A i \in 1..kept : new[i] = old[Len(old) - kept + i] ]_vars

\* C15 witness: a broadcastOnBot acquired the lock of g1 first and a
\* broadcast second; the buffer holds their messages in that order, while
\* the next caller waits.
C15_Witness ==
    /\ maxMessages = 2
    /\ Len(Items("g1")) = 2
    /\ Items("g1")[1].name = "bot"
    /\ Items("g1")[2].name = "alice"
    /\ \E call \in Holders("g1") : call.op = "broadcast"
    /\ Waiters("g1") # {}

\* The buffer, lock record, temp data and retained array of a group.
GroupState(groupId) ==
    <<messages[groupId], groupLocks[groupId], groupTemp[groupId],
      retained[groupId]>>

\* The body of any of the four async methods.
AnyBody(call) ==
    \/ BroadcastLocked(call)
    \/ BroadcastOnBotLocked(call)
    \/ GetTempLocked(call)
    \/ UpdateTempLocked(call)

\* The step is an operation on the group: a mute, the start of an async
\* call, the body of one or the firing of its _unlock.
OperationOn(groupId) ==
    \/ \E time \in 1..(MaxTime + 2) : mute(groupId, time)
    \/ \E call \in Pending :
           /\ call.session.guildId = groupId
           /\ AnyBody(call) \/ Unlocked(call)
    \/ \E call \in BagToSet(calls') :
           /\ call.session.guildId = groupId
           /\ calls' = calls (+) SetToBag({call})

\* C16: an operation on a group changes nothing of any other group, and
\* whether a caller can take or release the lock of its group depends on
\* that group alone: a waiter whose group's flag is free can run its body
\* and a caller awaiting its _unlock can release, whatever the locks of the
\* other groups are.
C16_GroupsAreIndependent ==
    /\ [][ \A groupId \in Groups, other \in Groups :
              /\ other # groupId
              /\ GroupState(other)' # GroupState(other)
              => ~OperationOn(groupId) ]_vars
    /\ [](\A call \in Pending :
              /\ call.pc = "lock" /\ ~groupLocks[call.session.guildId].lock
                     => ENABLED AnyBody(call)
              /\ call.pc = "unlock" => ENABLED Unlocked(call))

\* C16 witness: the lock of g1 is stuck under a broadcast that threw and g1
\* is muted, while a getTemp holds the lock of g2, which has a
\* buffered message.
C16_Witness ==
    /\ \E call \in Holders("g1") : call.pc = "thrown"
    /\ groupLocks["g1"].mute > now
    /\ \E call \in Holders("g2") : call.op = "getTemp" /\ call.pc = "unlock"
    /\ Items("g2") # <<>>
    /\ groupTemp["g2"] = TempDefault

\* C17: once a finite set of calls on a group is issued and the poll timers
\* keep firing, every call acquires the lock, finishes and releases it: in
\* the end no call is pending and the lock flag of every group is false.
C17_EveryCallReturns ==
    <>[](/\ calls = EmptyBag
         /\ \A groupId \in Groups : ~groupLocks[groupId].lock)

\* The string the normalizer is said to return for one element: the content
\* of a text element with its trailing whitespace trimmed, the rendering of
\* a mention, nothing for another kind.
RECURSIVE TrimmedJoin(_, _)
TrimmedJoin(session, elements) ==
    IF elements = <<>> THEN <<>>
    ELSE (IF Head(elements).type = "text"
          THEN trimEnd(Head(elements).content)
          ELSE ElementString(session, Head(elements)))
         \o TrimmedJoin(session, Tail(elements))

\* C18: the content a call buffers is empty (nothing is buffered) when its
\* text content is blank, and otherwise the concatenation of the trimmed
\* contents of its text elements and of the renderings of its mentions.
C18_NormalizerTrimsText ==
    [][ \A call \in Pending :
          BodyOf(call) =>
              LET groupId == call.session.guildId
                  elements == IF call.op = "broadcast"
                              THEN SessionElements(call.session)
                              ELSE call.elements
                  expected == IF trimEnd(call.session.content) = <<>>
                              THEN <<>>
                              ELSE TrimmedJoin(call.session, elements)
              IN  IF expected = <<>>
                  THEN messages' = messages
                  ELSE maxMessages >= 1 =>
                           /\ Items(groupId)' # <<>>
                           /\ Items(groupId)'[Len(Items(groupId)')].content
                                  = expected ]_vars

\* C19: a getTemp that a listener starts during a dispatch waits behind a
\* broadcast that is on its way to release: the broadcast has gone on to
\* its _unlock without waiting for the listener, the getTemp is not in its
\* critical section while the broadcast holds the lock, and the firing of
\* the _unlock timer lets it in.
C19_NestedCallDoesNotDeadlock ==
    \A groupId \in Groups :
        /\ HolderCount(groupId) <= 1
        /\ \A waiter \in Waiters(groupId) :
               waiter.op = "getTemp" =>
                   \A holder \in Holders(groupId) :
                       /\ holder.pc = "unlock"
                       /\ ENABLED Unlocked(holder)

\* The number of _unlock intervals pending on the group.
UnlocksPending(groupId) ==
    BagCardinality([call \in {c \in Holders(groupId) : c.pc = "unlock"}
                       |-> CopiesIn(call, calls)])

\* C20: per group at most one _unlock is pending, and the flag is true
\* while one is.  The flag goes from false to true when a waiter becomes
\* the only holder, the holder stays the same call while the flag stays
\* true, and the flag goes back to false only when the _unlock of that
\* holder fires.
C20_UnlockReleasesOwnLock ==
    /\ [](\A groupId \in Groups :
              /\ UnlocksPending(groupId) <= 1
              /\ UnlocksPending(groupId) = 1 => groupLocks[groupId].lock)
    /\ [][ \A groupId \in Groups :
              LET before == groupLocks[groupId].lock
                  after == groupLocks[groupId].lock'
              IN  /\ ~before /\ after =>
                         /\ Holders(groupId) = {}
                         /\ HolderCount(groupId)' = 1
                         /\ \E call \in Waiters(groupId) : AnyBody(call)
                  /\ before /\ after => Holders(groupId)' = Holders(groupId)
                  /\ before /\ ~after =>
                         /\ HolderCount(groupId) = 1
                         /\ Holders(groupId)' = {}
                         /\ Unlocked(Holder(groupId)) ]_vars

\* C20 witness: an updateTemp has released the lock of g1 and a getTemp
\* that took it next awaits its _unlock, while another caller waits.
C20_Witness ==
    /\ groupTemp["g1"] \in TempValues
    /\ \E call \in Holders("g1") : call.op = "getTemp" /\ call.pc = "unlock"
    /\ UnlocksPending("g1") = 1
    /\ Waiters("g1") # {}

=============================================================================
